---- MODULE Spec2Model ----
(***************************************************************************)
(* SnapTrace backend: the upload handler, the in-memory job store, the     *)
(* asynchronous processing pipeline and the status query, as one Node.js   *)
(* event loop.  Every action is one run-to-completion callback: an HTTP    *)
(* handler, a setImmediate callback, or the continuation after a           *)
(* simulateDelay timer.                                                    *)
(***************************************************************************)
EXTENDS Integers, Sequences, FiniteSets, TLC

\* ------------------------------------------------------------------ bounds
MaxJobs == 2        \* accepted uploads per run
MaxTime == 1        \* last millisecond the clock reaches by single ticks
NumRand == 1        \* distinct outcomes of the random id suffix

\* --------------------------------------------------------------- JS values
Undefined == [t |-> "undefined"]
Num(n)    == [t |-> "number", n |-> n]
NaN       == [t |-> "number", nan |-> TRUE]
Str(s)    == [t |-> "string", s |-> s]
Bool(b)   == [t |-> "boolean", b |-> b]

IsString(v) == v.t = "string"
IsNaN(v)    == v = NaN

\* presence test that takes the number 0 for a value
TruthyZeroOk(v) ==
    CASE v.t = "undefined" -> FALSE
      [] v.t = "string"    -> Len(v.s) > 0
      [] v.t = "boolean"   -> v.b
      [] v.t = "number"    -> ~IsNaN(v)

\* !v is false
Truthy(v) ==
    CASE v.t = "undefined" -> FALSE
      [] v.t = "string"    -> Len(v.s) > 0
      [] v.t = "boolean"   -> v.b
      [] v.t = "number"    -> ~IsNaN(v) /\ v.n # 0

Digits == <<"0", "1", "2", "3", "4", "5", "6", "7", "8", "9">>
IsDigit(c) == \E i \in 1..10 : Digits[i] = c
DigitVal(c) == (CHOOSE i \in 1..10 : Digits[i] = c) - 1

RECURSIVE ParseDigits(_, _)
ParseDigits(s, acc) ==
    IF s = <<>> THEN acc ELSE ParseDigits(Tail(s), 10 * acc + DigitVal(Head(s)))

\* the numeric value the relational operators coerce an operand to
ToNumber(v) ==
    CASE v.t = "undefined" -> NaN
      [] v.t = "number"    -> v
      [] v.t = "boolean"   -> IF v.b THEN Num(1) ELSE Num(0)
      [] v.t = "string"    ->
            IF v.s = <<>> THEN Num(0)
            ELSE IF \A i \in 1..Len(v.s) : IsDigit(v.s[i])
                 THEN Num(ParseDigits(v.s, 0))
                 ELSE NaN

\* comparison that also rejects the limit itself
GreaterOrEqual(v, limit) ==
    LET x == ToNumber(v) IN ~IsNaN(x) /\ x.n >= limit

\* v > limit, false whenever the coerced operand is NaN
GreaterThan(v, limit) ==
    LET x == ToNumber(v) IN ~IsNaN(x) /\ x.n > limit

\* String.prototype.includes
includes(s, prefix) ==
    \E i \in 0..(Len(s) - Len(prefix)) : SubSeq(s, i + 1, i + Len(prefix)) = prefix

\* String.prototype.startsWith
startsWith(s, prefix) ==
    /\ Len(s) >= Len(prefix)
    /\ SubSeq(s, 1, Len(prefix)) = prefix

ImagePrefix == <<"i", "m", "a", "g", "e", "/">>

\* ------------------------------------------------------- program constants
SizeLimit == 50 * 1024 * 1024

\* ------------------------------------------------------------ input values
NameJpg  == Str(<<"a", ".", "j", "p", "g">>)
TypePng  == Str(<<"i", "m", "a", "g", "e", "/", "p", "n", "g">>)
TypePdf  == Str(<<"a", "p", "p", "l", "i", "c", "a", "t", "i", "o", "n", "/", "p", "d", "f">>)

Body(fileName, fileType, fileSize) ==
    [fileName |-> fileName, fileType |-> fileType, fileSize |-> fileSize]

\* request bodies: a valid image at the size limit, and bodies that fail one
\* or several checks
Requests ==
    { Body(NameJpg,   TypePng,    Num(SizeLimit)),
      Body(Undefined, TypePng,    Num(SizeLimit)),
      Body(NameJpg,   Undefined,  Num(SizeLimit)),
      Body(NameJpg,   TypePng,    Undefined),
      Body(NameJpg,   TypePng,    Num(0)),
      Body(Str(<<>>), TypePng,    Num(SizeLimit)),
      Body(NameJpg,   Str(<<>>),  Num(60000000)),
      Body(Undefined, TypePng,    Num(SizeLimit + 1)),
      Body(NameJpg,   TypePng,    Num(SizeLimit + 1)),
      Body(NameJpg,   TypePng,    Num(60000000)),
      Body(NameJpg,   TypePng,    Str(<<"6", "0", "0", "0", "0", "0", "0", "0">>)),
      Body(NameJpg,   TypePdf,    Num(SizeLimit + 1)),
      Body(NameJpg,   TypePdf,    Num(SizeLimit)),
      Body(NameJpg,   Bool(TRUE), Num(SizeLimit)),
      Body(NameJpg,   Bool(TRUE), Num(SizeLimit + 1)) }

\* the bodies of a client that uploads images and, now and then, a PDF
LiveRequests ==
    { Body(NameJpg, TypePng, Num(SizeLimit)),
      Body(NameJpg, TypePdf, Num(SizeLimit)) }

\* image uploads of sizes the size check lets through
SizeRequests ==
    { Body(NameJpg, TypePng, Num(1)),
      Body(NameJpg, TypePng, Num(-5)),
      Body(NameJpg, TypePng, Num(SizeLimit)) }

TypeXImage == Str(<<"x", "-", "i", "m", "a", "g", "e", "/", "p", "n", "g">>)

\* arguments of createJob when it is called without the handler's checks
DirectRequests ==
    { Body(NameJpg, TypePng,    Num(SizeLimit)),
      Body(NameJpg, TypePdf,    Num(SizeLimit)),
      Body(NameJpg, TypeXImage, Num(SizeLimit)),
      Body(NameJpg, Str(<<>>),  Num(SizeLimit)) }

RandSuffixes == 1..NumRand

VARIABLES
    now,         \* Date.now()
    heap,        \* the ProcessingJob objects, in creation order
    jobs,        \* the Map: id -> index of the object stored under it
    immediates,  \* setImmediate queue: objects whose processMedia is due
    pipe,        \* per scheduled object: position of its processMedia call
    accepted,    \* objects whose upload got the accepted response, in order
    writes,      \* per id and status: the jobs.set calls on a record of that status
    http,        \* the last HTTP exchange
    form         \* the upload form of the frontend: its React state, its
                 \* pending timers and its handleUpload calls

vars == <<now, heap, jobs, writes, immediates, pipe, accepted, http, form>>

Objs == 1..Len(heap)

Terminal == {"completed", "failed"}

NoExchange == [kind |-> "none"]

\* useState<File | null>(null)
NoFile == [t |-> "null"]

\* the form as first rendered
NewForm ==
    [selectedFile |-> NoFile,
     uploadStatus |-> "idle",
     isUploading  |-> FALSE,
     timers       |-> <<>>,
     uploads      |-> <<>>]

Init ==
    /\ now = 0
    /\ heap = <<>>
    /\ jobs = <<>>
    /\ writes = <<>>
    /\ immediates = <<>>
    /\ pipe = <<>>
    /\ accepted = <<>>
    /\ http = NoExchange
    /\ form = NewForm

\* ------------------------------------------------------------- job store
\* a store that keeps only the record written last
jobsSetFresh(m, id, o) == [k \in {id} |-> o]

\* jobs.set(id, o)
jobsSet(m, id, o) ==
    [k \in DOMAIN m \cup {id} |-> IF k = id THEN o ELSE m[k]]

Statuses == {"pending", "processing", "completed", "failed"}

\* the count of jobs.set(id, job) calls made so far, with one more call on a
\* record whose status is status
jobsWritten(w, id, status) ==
    [k \in DOMAIN w \cup {id} |->
        IF k = id
        THEN [st \in Statuses |->
                 (IF id \in DOMAIN w THEN w[id][st] ELSE 0)
                     + (IF st = status THEN 1 ELSE 0)]
        ELSE w[k]]

\* jobs.get(id): the object stored under id, 0 for undefined
getJob(id) == IF id \in DOMAIN jobs THEN jobs[id] ELSE 0

\* Date.now().toString() + '-' + Math.random().toString(36).substr(2, 9)
NewId(rnd) == [ms |-> now, rnd |-> rnd]

\* the object literal createJob builds
NewJob(fileName, fileType, fileSize, rnd) ==
    [id          |-> NewId(rnd),
     fileName    |-> fileName,
     fileType    |-> fileType,
     fileSize    |-> fileSize,
     status      |-> "pending",
     createdAt   |-> Num(now),
     completedAt |-> Undefined,
     result      |-> Undefined]

\* ------------------------------------------- processMedia: record updates
\* 0.2 + Math.random() * 0.3, in thousandths
RFactors == {200, 499}

\* Math.floor(fileSize * k / 1000)
SizeSaved(fileSize, k) ==
    LET x == ToNumber(fileSize) IN
    IF IsNaN(x) THEN NaN
    ELSE Num((x.n \div 1000) * k + ((x.n % 1000) * k) \div 1000)

\* processing entry that leaves the status as it was
ProcessingSkipped(job) == job

\* job.status = 'processing'
Processing(job) == [job EXCEPT !.status = "processing"]

\* success path that forgets the completion timestamp
CompletedNoTimestamp(job, k, thumbnailCreated) ==
    [job EXCEPT !.status = "completed",
                !.result = [optimized |-> TRUE,
                            thumbnailCreated |-> thumbnailCreated,
                            sizeSaved |-> SizeSaved(job.fileSize, k)]]

\* success path that forgets the result
CompletedNoResult(job, k, thumbnailCreated) ==
    [job EXCEPT !.status = "completed",
                !.completedAt = Num(now)]

\* success path that reports the thumbnail outcome as the optimisation
CompletedThumbAsOptimized(job, k, thumbnailCreated) ==
    [job EXCEPT !.status = "completed",
                !.completedAt = Num(now),
                !.result = [optimized |-> thumbnailCreated,
                            thumbnailCreated |-> thumbnailCreated,
                            sizeSaved |-> SizeSaved(job.fileSize, k)]]

\* success path that stores the optimized size as the file size
CompletedShrinksFile(job, k, thumbnailCreated) ==
    [job EXCEPT !.status = "completed",
                !.completedAt = Num(now),
                !.fileSize = Num(ToNumber(job.fileSize).n
                                   - SizeSaved(job.fileSize, k).n),
                !.result = [optimized |-> TRUE,
                            thumbnailCreated |-> thumbnailCreated,
                            sizeSaved |-> SizeSaved(job.fileSize, k)]]

\* the success path's writes to the job object
Completed(job, k, thumbnailCreated) ==
    [job EXCEPT !.status = "completed",
                !.completedAt = Num(now),
                !.result = [optimized |-> TRUE,
                            thumbnailCreated |-> thumbnailCreated,
                            sizeSaved |-> SizeSaved(job.fileSize, k)]]

\* catch path that forgets the status
FailedKeepsStatus(job, errorMessage) ==
    [job EXCEPT !.completedAt = Num(now),
                !.result = [optimized |-> FALSE,
                            thumbnailCreated |-> FALSE,
                            error |-> errorMessage]]

\* catch path that forgets the error message
FailedNoError(job, errorMessage) ==
    [job EXCEPT !.status = "failed",
                !.completedAt = Num(now),
                !.result = [optimized |-> FALSE,
                            thumbnailCreated |-> FALSE]]

\* the catch path's writes to the job object
Failed(job, errorMessage) ==
    [job EXCEPT !.status = "failed",
                !.completedAt = Num(now),
                !.result = [optimized |-> FALSE,
                            thumbnailCreated |-> FALSE,
                            error |-> errorMessage]]

\* ---------------------------------------------------------- upload handler
Reply(status, body) == [status |-> status, body |-> body]

\* validation that looks at the type before the size
ValidateTypeBeforeSize(fileName, fileType, fileSize) ==
    IF ~Truthy(fileName) \/ ~Truthy(fileType) \/ ~Truthy(fileSize)
    THEN Reply(400, [error |-> "Missing required fields"])
    ELSE IF ~IsString(fileType)
    THEN Reply(500, [error |-> "Failed to process upload"])
    ELSE IF ~startsWith(fileType.s, ImagePrefix)
    THEN Reply(400, [error |-> "Only images are supported"])
    ELSE IF GreaterThan(fileSize, SizeLimit)
    THEN Reply(400, [error |-> "File too large (max 50MB)"])
    ELSE Reply(200, [status |-> "accepted"])

\* validation that takes a non-string type for a type that is not an image
ValidateCoercesType(fileName, fileType, fileSize) ==
    IF ~Truthy(fileName) \/ ~Truthy(fileType) \/ ~Truthy(fileSize)
    THEN Reply(400, [error |-> "Missing required fields"])
    ELSE IF GreaterThan(fileSize, SizeLimit)
    THEN Reply(400, [error |-> "File too large (max 50MB)"])
    ELSE IF ~IsString(fileType) \/ ~startsWith(fileType.s, ImagePrefix)
    THEN Reply(400, [error |-> "Only images are supported"])
    ELSE Reply(200, [status |-> "accepted"])

\* the checks of POST /api/upload in source order, with the reply each one
\* sends; the last line is the reply sent after createJob and setImmediate
Validate(fileName, fileType, fileSize) ==
    IF ~Truthy(fileName) \/ ~Truthy(fileType) \/ ~Truthy(fileSize)
    THEN Reply(400, [error |-> "Missing required fields"])
    ELSE IF GreaterThan(fileSize, SizeLimit)
    THEN Reply(400, [error |-> "File too large (max 50MB)"])
    ELSE IF ~IsString(fileType)          \* fileType.startsWith throws, caught
    THEN Reply(500, [error |-> "Failed to process upload"])
    ELSE IF ~startsWith(fileType.s, ImagePrefix)
    THEN Reply(400, [error |-> "Only images are supported"])
    ELSE Reply(200, [status |-> "accepted"])

\* the handler's try block, statement by statement: the status codes sent
\* with res so far, and whether the callback has returned
\* a missing-fields check that answers but does not return
MissingCheckNoReturn(fileName, fileType, fileSize) ==
    IF ~Truthy(fileName) \/ ~Truthy(fileType) \/ ~Truthy(fileSize)
    THEN [sent |-> <<400>>, returned |-> FALSE]
    ELSE [sent |-> <<>>, returned |-> FALSE]

\* if (!fileName || !fileType || !fileSize) { res.status(400)...; return; }
MissingCheck(fileName, fileType, fileSize) ==
    IF ~Truthy(fileName) \/ ~Truthy(fileType) \/ ~Truthy(fileSize)
    THEN [sent |-> <<400>>, returned |-> TRUE]
    ELSE [sent |-> <<>>, returned |-> FALSE]

\* if (fileSize > 50 * 1024 * 1024) { res.status(400)...; return; }
SizeCheck(flow, fileSize) ==
    IF flow.returned THEN flow
    ELSE IF GreaterThan(fileSize, SizeLimit)
    THEN [sent |-> Append(flow.sent, 400), returned |-> TRUE]
    ELSE flow

\* if (!fileType.startsWith('image/')) { res.status(400)...; return; }
\* on a non-string the call throws and the catch block sends 500
TypeCheck(flow, fileType) ==
    IF flow.returned THEN flow
    ELSE IF ~IsString(fileType)
    THEN [sent |-> Append(flow.sent, 500), returned |-> TRUE]
    ELSE IF ~startsWith(fileType.s, ImagePrefix)
    THEN [sent |-> Append(flow.sent, 400), returned |-> TRUE]
    ELSE flow

\* createJob, setImmediate and res.json: nothing here throws
Respond(flow) ==
    IF flow.returned THEN flow
    ELSE [sent |-> Append(flow.sent, 200), returned |-> TRUE]

\* the status codes of the responses one run of the handler sends, in order
Responses(fileName, fileType, fileSize) ==
    Respond(TypeCheck(SizeCheck(MissingCheck(fileName, fileType, fileSize),
                                fileSize), fileType)).sent

\* scheduling that loses the callback
setImmediateDropped(queue, o) == queue

\* scheduling that queues the callback twice
setImmediateTwice(queue, o) == Append(Append(queue, o), o)

\* setImmediate(callback): the callback joins the immediate queue
setImmediate(queue, o) == Append(queue, o)

\* a processMedia call that has not started: no operations yet, never run
NewPipe == [pc |-> "queued", operations |-> <<>>, runs |-> 0]

\* handler that awaits processMedia before it responds
UploadAwaitsPipeline(fileName, fileType, fileSize, rnd) ==
    LET v   == Validate(fileName, fileType, fileSize)
        sent == Responses(fileName, fileType, fileSize)
        req == [fileName |-> fileName, fileType |-> fileType, fileSize |-> fileSize]
    IN  IF v.status = 200
        THEN LET job == NewJob(fileName, fileType, fileSize, rnd)
                 o   == Len(heap) + 1
             IN  /\ Len(heap) < MaxJobs
                 /\ \E k \in RFactors, thumbnailCreated \in BOOLEAN :
                       heap' = Append(heap, Completed(Processing(job), k, thumbnailCreated))
                 /\ jobs' = jobsSet(jobs, job.id, o)
                 /\ writes' = jobsWritten(jobsWritten(jobsWritten(writes,
                                  job.id, "pending"), job.id, "processing"),
                                  job.id, "completed")
                 /\ immediates' = immediates
                 /\ pipe' = Append(pipe, [pc |-> "done", runs |-> 1,
                                          operations |-> <<"optimize", "thumbnail">>])
                 /\ accepted' = Append(accepted, o)
                 /\ http' = [kind |-> "upload", req |-> req, sent |-> sent, status |-> 200,
                             body |-> [jobId |-> job.id, status |-> "accepted",
                                       message |-> "Upload received and processing started"]]
                 /\ UNCHANGED <<now, form>>
        ELSE /\ http' = [kind |-> "upload", req |-> req, sent |-> sent, status |-> v.status,
                         body |-> v.body]
             /\ UNCHANGED <<now, form, heap, jobs, writes, immediates, pipe, accepted>>

\* handler that creates the job before it validates
UploadCreatesFirst(fileName, fileType, fileSize, rnd) ==
    LET v   == Validate(fileName, fileType, fileSize)
        sent == Responses(fileName, fileType, fileSize)
        req == [fileName |-> fileName, fileType |-> fileType, fileSize |-> fileSize]
        job == NewJob(fileName, fileType, fileSize, rnd)
        o   == Len(heap) + 1
    IN  /\ Len(heap) < MaxJobs
        /\ heap' = Append(heap, job)
        /\ jobs' = jobsSet(jobs, job.id, o)
        /\ writes' = jobsWritten(writes, job.id, "pending")
        /\ UNCHANGED <<now, form>>
        /\ IF v.status = 200
           THEN /\ immediates' = setImmediate(immediates, o)
                /\ pipe' = Append(pipe, NewPipe)
                /\ accepted' = Append(accepted, o)
                /\ http' = [kind |-> "upload", req |-> req, sent |-> sent, status |-> 200,
                            body |-> [jobId |-> job.id, status |-> "accepted",
                                      message |-> "Upload received and processing started"]]
           ELSE /\ http' = [kind |-> "upload", req |-> req, sent |-> sent, status |-> v.status,
                            body |-> v.body]
                /\ pipe' = Append(pipe, [NewPipe EXCEPT !.pc = "none"])
                /\ UNCHANGED <<immediates, accepted>>

\* handler that calls processMedia itself instead of scheduling it: the call
\* runs up to its first await before the response is sent
UploadCallsPipeline(fileName, fileType, fileSize, rnd) ==
    LET v   == Validate(fileName, fileType, fileSize)
        sent == Responses(fileName, fileType, fileSize)
        req == [fileName |-> fileName, fileType |-> fileType, fileSize |-> fileSize]
    IN  IF v.status = 200
        THEN LET job == NewJob(fileName, fileType, fileSize, rnd)
                 o   == Len(heap) + 1
             IN  /\ Len(heap) < MaxJobs
                 /\ heap' = Append(heap, Processing(job))
                 /\ jobs' = jobsSet(jobs, job.id, o)
                 /\ writes' = jobsWritten(jobsWritten(writes,
                                  job.id, "pending"), job.id, "processing")
                 /\ immediates' = immediates
                 /\ pipe' = Append(pipe, [NewPipe EXCEPT !.pc = "optimize",
                                                         !.runs = 1])
                 /\ accepted' = Append(accepted, o)
                 /\ http' = [kind |-> "upload", req |-> req, sent |-> sent, status |-> 200,
                             body |-> [jobId |-> job.id, status |-> "accepted",
                                       message |-> "Upload received and processing started"]]
                 /\ UNCHANGED <<now, form>>
        ELSE /\ http' = [kind |-> "upload", req |-> req, sent |-> sent, status |-> v.status,
                         body |-> v.body]
             /\ UNCHANGED <<now, form, heap, jobs, writes, immediates, pipe, accepted>>

\* POST /api/upload: one synchronous run of the handler
Upload(fileName, fileType, fileSize, rnd) ==
    LET v   == Validate(fileName, fileType, fileSize)
        sent == Responses(fileName, fileType, fileSize)
        req == [fileName |-> fileName, fileType |-> fileType, fileSize |-> fileSize]
    IN  IF v.status = 200
        THEN LET job == NewJob(fileName, fileType, fileSize, rnd)
                 o   == Len(heap) + 1
             IN  /\ Len(heap) < MaxJobs
                 /\ heap' = Append(heap, job)
                 /\ jobs' = jobsSet(jobs, job.id, o)
                 /\ writes' = jobsWritten(writes, job.id, "pending")
                 /\ immediates' = setImmediate(immediates, o)
                 /\ pipe' = Append(pipe, NewPipe)
                 /\ accepted' = Append(accepted, o)
                 /\ http' = [kind |-> "upload", req |-> req, sent |-> sent, status |-> 200,
                             body |-> [jobId |-> job.id, status |-> "accepted",
                                       message |-> "Upload received and processing started"]]
                 /\ UNCHANGED <<now, form>>
        ELSE /\ http' = [kind |-> "upload", req |-> req, sent |-> sent, status |-> v.status,
                         body |-> v.body]
             /\ UNCHANGED <<now, form, heap, jobs, writes, immediates, pipe, accepted>>

\* ------------------------------------------------------------ status query
StatusQuery(id) ==
    LET o == getJob(id) IN
    IF o = 0
    THEN /\ http' = [kind |-> "status", id |-> id, status |-> 404,
                     body |-> [error |-> "Job not found"]]
         /\ UNCHANGED <<now, form, heap, jobs, writes, immediates, pipe, accepted>>
    ELSE LET job == heap[o] IN
         /\ http' = [kind |-> "status", id |-> id, status |-> 200,
                     body |-> [jobId       |-> job.id,
                               status      |-> job.status,
                               fileName    |-> job.fileName,
                               fileSize    |-> job.fileSize,
                               createdAt   |-> job.createdAt,
                               completedAt |-> job.completedAt,
                               result      |-> job.result]]
         /\ UNCHANGED <<now, form, heap, jobs, writes, immediates, pipe, accepted>>

Health ==
    /\ http' = [kind |-> "health", status |-> 200,
                body |-> [app |-> "SnapTrace Backend", status |-> "healthy",
                          timestamp |-> now]]
    /\ UNCHANGED <<now, form, heap, jobs, writes, immediates, pipe, accepted>>

\* ---------------------------------------------------- pipeline callbacks
\* simulateDelay: the continuation runs in a later turn of the loop, once its
\* timer has fired; the random duration decides only when
\* continuations that wait for the pipelines of the jobs submitted earlier
DueInOrder(o, step) ==
    /\ o \in Objs
    /\ pipe[o].pc = step
    /\ \A p \in 1..(o - 1) : pipe[p].pc \in {"done", "none"}

Due(o, step) == o \in Objs /\ pipe[o].pc = step

\* the setImmediate callback: processMedia up to its first await, or to its
\* end when nothing is awaited
ProcessMediaStart ==
    /\ immediates # <<>>
    /\ LET o   == Head(immediates)
           job == Processing(heap[o])
           entered == jobsWritten(writes, job.id, job.status)
       IN  /\ immediates' = Tail(immediates)
           /\ jobs' = jobsSet(jobs, job.id, o)
           /\ IF ~IsString(job.fileType)
              THEN /\ heap' = [heap EXCEPT ![o] =
                                  Failed(job, "job.fileType.startsWith is not a function")]
                   /\ writes' = jobsWritten(entered, job.id, "failed")
                   /\ pipe' = [pipe EXCEPT ![o].pc = "done", ![o].runs = @ + 1]
              ELSE IF startsWith(job.fileType.s, ImagePrefix)
              THEN /\ heap' = [heap EXCEPT ![o] = job]
                   /\ writes' = entered
                   /\ pipe' = [pipe EXCEPT ![o].pc = "optimize", ![o].runs = @ + 1]
              ELSE /\ \E k \in RFactors, thumbnailCreated \in BOOLEAN :
                         heap' = [heap EXCEPT ![o] = Completed(job, k, thumbnailCreated)]
                   /\ writes' = jobsWritten(entered, job.id, "completed")
                   /\ pipe' = [pipe EXCEPT ![o].pc = "done", ![o].runs = @ + 1]
           /\ UNCHANGED <<now, form, accepted, http>>

\* continuation after the optimize delay
AfterOptimize(o) ==
    /\ Due(o, "optimize")
    /\ pipe' = [pipe EXCEPT ![o].pc = "thumbnail",
                            ![o].operations = Append(@, "optimize")]
    /\ UNCHANGED <<now, form, heap, jobs, writes, immediates, accepted, http>>

\* continuation after the thumbnail delay, through the finally block
AfterThumbnail(o) ==
    /\ Due(o, "thumbnail")
    /\ \E k \in RFactors, thumbnailCreated \in BOOLEAN :
          heap' = [heap EXCEPT ![o] = Completed(heap[o], k, thumbnailCreated)]
    /\ jobs' = jobsSet(jobs, heap[o].id, o)
    /\ writes' = jobsWritten(writes, heap[o].id, "completed")
    /\ pipe' = [pipe EXCEPT ![o].pc = "done",
                            ![o].operations = Append(@, "thumbnail")]
    /\ UNCHANGED <<now, form, immediates, accepted, http>>

\* ------------------------------------------------- faults in the try block
\* what a statement of the try block may throw: an Error or something else
Thrown == {[isError |-> TRUE, message |-> "boom"], [isError |-> FALSE]}

\* error instanceof Error ? error.message : 'Unknown error'
ErrorMessage(e) == IF e.isError THEN e.message ELSE "Unknown error"

\* catch block that also answers the upload request with an error
CaughtResponds(o, job, e, written) ==
    /\ heap' = [heap EXCEPT ![o] = Failed(job, ErrorMessage(e))]
    /\ jobs' = jobsSet(jobs, job.id, o)
    /\ writes' = jobsWritten(written, job.id, "failed")
    /\ http' = [kind |-> "upload", req |-> Body(job.fileName, job.fileType, job.fileSize),
                status |-> 500, body |-> [error |-> "Failed to process upload"]]
    /\ UNCHANGED <<now, form, accepted>>

\* the catch block and the finally block: nothing is rethrown, no response
\* is touched; written is the log of jobs.set calls when the statement threw
Caught(o, job, e, written) ==
    /\ heap' = [heap EXCEPT ![o] = Failed(job, ErrorMessage(e))]
    /\ jobs' = jobsSet(jobs, job.id, o)
    /\ writes' = jobsWritten(written, job.id, "failed")
    /\ UNCHANGED <<now, form, accepted, http>>

\* the setImmediate callback, when a statement before the first await throws
StartThrows ==
    /\ immediates # <<>>
    /\ LET o == Head(immediates) IN
       /\ immediates' = Tail(immediates)
       /\ \E e \in Thrown :
             Caught(o, Processing(heap[o]), e,
                    jobsWritten(writes, heap[o].id, "processing"))
       /\ pipe' = [pipe EXCEPT ![o].pc = "done", ![o].runs = @ + 1]

\* the continuation after the optimize delay, when it throws
OptimizeThrows(o) ==
    /\ Due(o, "optimize")
    /\ \E e \in Thrown : Caught(o, heap[o], e, writes)
    /\ pipe' = [pipe EXCEPT ![o].pc = "done"]
    /\ UNCHANGED immediates

\* the continuation after the thumbnail delay, when it throws
ThumbnailThrows(o) ==
    /\ Due(o, "thumbnail")
    /\ \E e \in Thrown : Caught(o, heap[o], e, writes)
    /\ pipe' = [pipe EXCEPT ![o].pc = "done"]
    /\ UNCHANGED immediates

\* ------------------------------------------------------------------- clock
\* one millisecond passes
Tick ==
    /\ now < MaxTime
    /\ now' = now + 1
    /\ UNCHANGED <<heap, jobs, writes, immediates, pipe, accepted, http, form>>

\* ------------------------------------------------------------ the program
\* the ids a client can ask for: every id createJob can produce
IdUniverse == [ms : 0..MaxTime, rnd : RandSuffixes]

\* the callbacks of the pipelines and the passing of time
Loop ==
    \/ ProcessMediaStart
    \/ \E o \in Objs : AfterOptimize(o)
    \/ \E o \in Objs : AfterThumbnail(o)
    \/ Tick

Next ==
    \/ \E req \in Requests, rnd \in RandSuffixes :
          Upload(req.fileName, req.fileType, req.fileSize, rnd)
    \/ \E id \in IdUniverse : StatusQuery(id)
    \/ Health
    \/ Loop

Spec == Init /\ [][Next]_vars

\* a client polls the status of the job its upload created
Poll(o) == o \in Objs /\ StatusQuery(heap[o].id)

LiveNext ==
    \/ \E req \in LiveRequests, rnd \in RandSuffixes :
          Upload(req.fileName, req.fileType, req.fileSize, rnd)
    \/ \E o \in 1..MaxJobs : Poll(o)
    \/ Health
    \/ Loop

\* the event loop runs every queued immediate and every expired timer
LoopFairness ==
    /\ WF_vars(ProcessMediaStart)
    /\ \A o \in 1..MaxJobs : WF_vars(AfterOptimize(o)) /\ WF_vars(AfterThumbnail(o))

FairSpec == Init /\ [][LiveNext]_vars /\ LoopFairness

\* ... and every client keeps polling
PollSpec == FairSpec /\ \A o \in 1..MaxJobs : WF_vars(Poll(o))

\* the server when statements of the pipeline's try block may throw
FaultNext ==
    \/ LiveNext
    \/ StartThrows
    \/ \E o \in Objs : OptimizeThrows(o)
    \/ \E o \in Objs : ThumbnailThrows(o)

FaultSpec == Init /\ [][FaultNext]_vars

\* the server under image uploads of small, negative and maximal sizes
SizeNext ==
    \/ \E req \in SizeRequests, rnd \in RandSuffixes :
          Upload(req.fileName, req.fileType, req.fileSize, rnd)
    \/ \E o \in 1..MaxJobs : Poll(o)
    \/ Loop

SizeSpec == Init /\ [][SizeNext]_vars

\* createJob and processMedia called by a caller that does not validate: the
\* job is created and its processMedia call queued, as the handler does
DirectCall(fileName, fileType, fileSize, rnd) ==
    LET job == NewJob(fileName, fileType, fileSize, rnd)
        o   == Len(heap) + 1
    IN  /\ Len(heap) < MaxJobs
        /\ heap' = Append(heap, job)
        /\ jobs' = jobsSet(jobs, job.id, o)
        /\ writes' = jobsWritten(writes, job.id, "pending")
        /\ immediates' = setImmediate(immediates, o)
        /\ pipe' = Append(pipe, NewPipe)
        /\ UNCHANGED <<now, form, accepted, http>>

DirectNext ==
    \/ \E req \in DirectRequests, rnd \in RandSuffixes :
          DirectCall(req.fileName, req.fileType, req.fileSize, rnd)
    \/ \E o \in 1..MaxJobs : Poll(o)
    \/ Loop

\* the pipeline on jobs of any file type
PipelineSpec == Init /\ [][DirectNext]_vars

\* ------------------------------------------------- frontend: UploadForm
\* handleUpload calls and pending timers the model follows
MaxUploads == 2
MaxTimers == 3

\* the timer durations in milliseconds, counted in steps of 500
FileResetDelay == 3000 \div 500
ErrorResetDelay == 3000 \div 500
CompleteDelay == 2000 \div 500
FormResetDelay == 1500 \div 500

\* 10MB limit of handleFile
FrontLimit == 10 * 1024 * 1024

File(name, type, size) == [name |-> name, type |-> type, size |-> size]

\* the files a user picks or drops: an image, an empty image, an image at
\* and over the form's limit, a PDF
Files ==
    { File(NameJpg, TypePng, Num(1)),
      File(NameJpg, TypePng, Num(0)),
      File(NameJpg, TypePng, Num(FrontLimit)),
      File(NameJpg, TypePng, Num(FrontLimit + 1)),
      File(NameJpg, TypePdf, Num(1)) }

\* setTimeout(callback, delay) called while started handleUpload calls exist
setTimeout(timers, callback, delay, upload) ==
    Append(timers, [callback |-> callback, left |-> delay, upload |-> upload,
                    after |-> Len(form.uploads)])

\* the two checks of handleFile
Rejected(file) ==
    \/ ~startsWith(file.type.s, ImagePrefix)
    \/ GreaterThan(file.size, FrontLimit)

\* handleFile, reached from handleChange and from handleDrop
handleFile(file) ==
    /\ IF Rejected(file)
       THEN /\ Len(form.timers) < MaxTimers
            /\ form' = [form EXCEPT
                           !.uploadStatus = "error",
                           !.timers = setTimeout(@, "fileReset", FileResetDelay, 0)]
       ELSE form' = [form EXCEPT !.selectedFile = file]
    /\ UNCHANGED <<now, heap, jobs, writes, immediates, pipe, accepted, http>>

\* the upload button is rendered and not disabled
ButtonEnabled ==
    /\ form.selectedFile # NoFile
    /\ form.uploadStatus = "idle"
    /\ ~form.isUploading

\* a click on the upload button: handleUpload up to its fetch
handleUpload ==
    /\ ButtonEnabled
    /\ Len(form.uploads) < MaxUploads
    /\ form' = [form EXCEPT
                   !.isUploading = TRUE,
                   !.uploadStatus = "uploading",
                   !.uploads = Append(@, [file   |-> form.selectedFile,
                                          phase  |-> "fetching",
                                          status |-> 0])]
    /\ UNCHANGED <<now, heap, jobs, writes, immediates, pipe, accepted, http>>

\* the catch block of handleUpload, then setIsUploading(false)
UploadFailed(u, status) ==
    /\ Len(form.timers) < MaxTimers
    /\ form' = [form EXCEPT
                   !.uploadStatus = "error",
                   !.isUploading = FALSE,
                   !.uploads[u].phase = "error",
                   !.uploads[u].status = status,
                   !.timers = setTimeout(@, "errorReset", ErrorResetDelay, u)]

\* the fetch of upload u is answered: the backend's reply to the body the
\* form sent; handleUpload runs on to its end
FetchResolves(u) ==
    /\ u \in 1..Len(form.uploads)
    /\ form.uploads[u].phase = "fetching"
    /\ LET file == form.uploads[u].file
           v    == Validate(file.name, file.type, file.size)
       IN  IF v.status = 200
           THEN /\ Len(form.timers) < MaxTimers
                /\ form' = [form EXCEPT
                               !.uploadStatus = "processing",
                               !.isUploading = FALSE,
                               !.uploads[u].phase = "processing",
                               !.uploads[u].status = v.status,
                               !.timers = setTimeout(@, "complete", CompleteDelay, u)]
           ELSE UploadFailed(u, v.status)
    /\ UNCHANGED <<now, heap, jobs, writes, immediates, pipe, accepted, http>>

\* the fetch of upload u fails on the network
FetchRejects(u) ==
    /\ u \in 1..Len(form.uploads)
    /\ form.uploads[u].phase = "fetching"
    /\ UploadFailed(u, 0)
    /\ UNCHANGED <<now, heap, jobs, writes, immediates, pipe, accepted, http>>

RemoveAt(seq, i) == SubSeq(seq, 1, i - 1) \o SubSeq(seq, i + 1, Len(seq))

\* the oldest expired timer runs its callback
TimerFires(i) ==
    /\ i \in 1..Len(form.timers)
    /\ form.timers[i].left = 0
    /\ \A j \in 1..(i - 1) : form.timers[j].left > 0
    /\ LET tm   == form.timers[i]
           rest == RemoveAt(form.timers, i)
       IN  CASE tm.callback \in {"fileReset", "errorReset"} ->
                  form' = [form EXCEPT
                             !.uploadStatus = "idle",
                             !.uploads = [u \in DOMAIN @ |->
                                 IF u = tm.upload THEN [@[u] EXCEPT !.phase = "done"]
                                 ELSE @[u]],
                             !.timers = rest]
            [] tm.callback = "complete" ->
                  form' = [form EXCEPT
                             !.uploadStatus = "success",
                             !.uploads[tm.upload].phase = "success",
                             !.timers = Append(rest,
                                 [callback |-> "formReset", left |-> FormResetDelay,
                                  upload |-> tm.upload, after |-> Len(form.uploads)])]
            [] tm.callback = "formReset" ->
                  form' = [form EXCEPT
                             !.selectedFile = NoFile,
                             !.uploadStatus = "idle",
                             !.uploads[tm.upload].phase = "done",
                             !.timers = rest]
    /\ UNCHANGED <<now, heap, jobs, writes, immediates, pipe, accepted, http>>

\* 500 milliseconds pass; expired timers have run
Elapse ==
    /\ form.timers # <<>>
    /\ \A i \in 1..Len(form.timers) : form.timers[i].left > 0
    /\ form' = [form EXCEPT
                   !.timers = [i \in DOMAIN @ |-> [@[i] EXCEPT !.left = @ - 1]]]
    /\ UNCHANGED <<now, heap, jobs, writes, immediates, pipe, accepted, http>>

FormNext ==
    \/ \E file \in Files : handleFile(file)
    \/ handleUpload
    \/ \E u \in 1..MaxUploads : FetchResolves(u)
    \/ \E u \in 1..MaxUploads : FetchRejects(u)
    \/ \E i \in 1..MaxTimers : TimerFires(i)
    \/ Elapse

\* the upload form in front of the backend's upload validation
FormSpec == Init /\ [][FormNext]_vars

\* ================================================================ claims
StatusQueried == http.kind = "status" /\ http.status = 200

\* a status query has just been answered with a job record
StatusAnswered == http' # http /\ http'.kind = "status" /\ http'.status = 200

\* C1: the status of every job moves only pending -> processing ->
\* completed | failed (a new job starts pending, no step moves a status
\* backwards or from pending straight to a terminal state), and every
\* status query reports the status stored at that moment, so what queries
\* observe over time is a subsequence of that order.
C1_StatusStep(o) ==
    \/ heap'[o].status = heap[o].status
    \/ heap[o].status = "pending" /\ heap'[o].status = "processing"
    \/ heap[o].status = "processing" /\ heap'[o].status \in Terminal

C1_StatusOrder ==
    [][ /\ \A o \in Objs : C1_StatusStep(o)
        /\ \A o \in (1..Len(heap')) \ Objs : heap'[o].status = "pending"
        /\ StatusAnswered => http'.body.status = heap'[jobs'[http'.id]].status
      ]_vars

\* a query has reported a terminal status for a job that went through
\* processing
C1_Witness ==
    /\ StatusQueried
    /\ http.body.status = "completed"
    /\ pipe[jobs[http.id]].runs = 1

\* C2: completedAt is set exactly on the jobs whose status is completed or
\* failed.
C2_CompletedAtIffTerminal ==
    \A o \in Objs :
        (heap[o].completedAt # Undefined) <=> (heap[o].status \in Terminal)

C2_Witness ==
    \E o, p \in Objs :
        /\ heap[o].status = "completed" /\ heap[o].completedAt # Undefined
        /\ heap[p].status = "processing" /\ heap[p].completedAt = Undefined

\* C3: a status query never reports result without completedAt or
\* completedAt without result, and reports neither while the status is
\* pending or processing; the same holds of every stored job.
C3_Together(status, completedAt, result) ==
    /\ (result = Undefined) <=> (completedAt = Undefined)
    /\ status \in {"pending", "processing"} =>
           result = Undefined /\ completedAt = Undefined

C3_ResultWithCompletedAt ==
    /\ StatusQueried =>
           C3_Together(http.body.status, http.body.completedAt, http.body.result)
    /\ \A o \in Objs :
           C3_Together(heap[o].status, heap[o].completedAt, heap[o].result)

\* a query made while the pipeline waits on a delay
C3_Witness ==
    /\ StatusQueried
    /\ http.body.status = "processing"
    /\ http.body.result = Undefined
    /\ pipe[jobs[http.id]].pc \in {"optimize", "thumbnail"}

\* an accepted response has just been sent
AcceptedSent == accepted' # accepted

\* C4: the accepted response is sent while the job's pipeline has not run
\* at all (its callback is still queued, no delay has started), so no job
\* reaches a terminal state before its upload was answered.
C4_RespondsBeforePipeline ==
    /\ [](\A o \in Objs : heap[o].status \in Terminal =>
              \E i \in 1..Len(accepted) : accepted[i] = o)
    /\ [][AcceptedSent =>
            LET o == accepted'[Len(accepted')] IN
            /\ http'.kind = "upload" /\ http'.status = 200
            /\ http'.body.status = "accepted"
            /\ http'.body.jobId = heap'[o].id
            /\ pipe'[o].pc = "queued" /\ pipe'[o].runs = 0
            /\ heap'[o].status \notin Terminal
         ]_vars

\* the accepted response is the last exchange and its job has since finished
C4_Witness ==
    /\ http.kind = "upload" /\ http.status = 200
    /\ heap[jobs[http.body.jobId]].status = "completed"

\* C5: every job of an accepted upload eventually reaches completed or
\* failed when the loop runs its queued immediates and expired timers.
C5_EveryJobTerminates ==
    \A o \in 1..MaxJobs :
        (o \in Objs) ~> (o \in Objs /\ heap[o].status \in Terminal)

C5_Witness ==
    \E o \in Objs :
        /\ heap[o].status \in Terminal
        /\ pipe[o].pc = "done"
        /\ pipe[o].operations = <<"optimize", "thumbnail">>

\* all three fields truthy, a size within the limit, an image type
ValidImage(req) ==
    /\ Truthy(req.fileName) /\ Truthy(req.fileType) /\ Truthy(req.fileSize)
    /\ req.fileSize.t = "number" /\ req.fileSize.n <= SizeLimit
    /\ IsString(req.fileType) /\ startsWith(req.fileType.s, ImagePrefix)

CompletedOptimized(id) ==
    /\ StatusQueried
    /\ http.id = id
    /\ http.body.status = "completed"
    /\ http.body.result # Undefined
    /\ http.body.result.optimized = TRUE

\* C6: a valid image upload is answered accepted with the id of a stored
\* job, and for every job so created a client that keeps polling its id
\* eventually gets status completed with result.optimized = true.
C6_ValidImageCompletes ==
    /\ [](http.kind = "upload" /\ ValidImage(http.req) =>
              /\ http.status = 200
              /\ http.body.status = "accepted"
              /\ http.body.jobId \in DOMAIN jobs)
    /\ \A o \in 1..MaxJobs :
           (o \in Objs) ~> (o \in Objs /\ CompletedOptimized(heap[o].id))

C6_Witness ==
    \E id \in DOMAIN jobs :
        /\ CompletedOptimized(id)
        /\ ValidImage(heap[jobs[id]])

\* pipeline invocations scheduled for o: started ones and queued ones
Invocations(o) ==
    pipe[o].runs + Cardinality({i \in 1..Len(immediates) : immediates[i] = o})

\* C7: an accepted upload creates exactly one job, stores it under its id
\* and schedules exactly one processMedia call, for that job; jobs are
\* created by accepted uploads only, so jobs created = invocations
\* scheduled = accepted responses.
C7_OneJobOneInvocation ==
    /\ [](/\ Len(heap) = Len(accepted)
          /\ \A o \in Objs : Invocations(o) = 1)
    /\ [][AcceptedSent =>
            LET o == Len(heap) + 1 IN
            /\ accepted' = Append(accepted, o)
            /\ Len(heap') = o
            /\ jobs'[heap'[o].id] = o
            /\ immediates' = Append(immediates, o)
         ]_vars
    /\ [][Len(heap') # Len(heap) => AcceptedSent]_vars

C7_Witness ==
    /\ Len(accepted) >= 2
    /\ Len(heap) = Len(accepted)
    /\ \A o \in Objs : pipe[o].runs = 1

\* an upload has just been answered 400
RejectedSent == http' # http /\ http'.kind = "upload" /\ http'.status = 400

\* C8: an upload answered 400 changes neither the job store nor the queue
\* of scheduled pipelines; while no upload has been accepted every status
\* query is answered 404.
C8_RejectedLeavesStore ==
    /\ [][RejectedSent => UNCHANGED <<heap, jobs, immediates, pipe, accepted>>]_vars
    /\ [](accepted = <<>> /\ http.kind = "status" => http.status = 404)

C8_Witness ==
    /\ http.kind = "upload" /\ http.status = 400
    /\ http.body.error = "File too large (max 50MB)"
    /\ heap = <<>>

Missing(req) ==
    ~Truthy(req.fileName) \/ ~Truthy(req.fileType) \/ ~Truthy(req.fileSize)
Oversize(req) == req.fileSize.t = "number" /\ req.fileSize.n > SizeLimit
NonImage(req) == IsString(req.fileType) /\ ~startsWith(req.fileType.s, ImagePrefix)

\* C9: the reply is that of the earliest failing check in the order missing
\* fields, size, image type, each with status 400.
C9_ValidationOrder ==
    http.kind = "upload" =>
        /\ Missing(http.req) =>
               http.status = 400 /\ http.body.error = "Missing required fields"
        /\ ~Missing(http.req) /\ Oversize(http.req) =>
               http.status = 400 /\ http.body.error = "File too large (max 50MB)"
        /\ ~Missing(http.req) /\ ~Oversize(http.req) /\ NonImage(http.req) =>
               http.status = 400 /\ http.body.error = "Only images are supported"

\* oversize and not an image: only the size error is reported
C9_Witness ==
    /\ http.kind = "upload"
    /\ ~Missing(http.req) /\ Oversize(http.req) /\ NonImage(http.req)
    /\ http.body.error = "File too large (max 50MB)"

\* C10: with the other fields valid, a numeric fileSize is accepted exactly
\* when it is at most 50 * 1024 * 1024, and rejected with "File too large
\* (max 50MB)" above that.
C10_SizeCeiling ==
    (/\ http.kind = "upload"
     /\ http.req.fileSize.t = "number" /\ Truthy(http.req.fileSize)
     /\ Truthy(http.req.fileName)
     /\ IsString(http.req.fileType) /\ startsWith(http.req.fileType.s, ImagePrefix))
    =>
        /\ http.req.fileSize.n <= 50 * 1024 * 1024 => http.status = 200
        /\ http.req.fileSize.n > 50 * 1024 * 1024 =>
               http.status = 400 /\ http.body.error = "File too large (max 50MB)"

\* a size of exactly 52428800 was accepted
C10_Witness ==
    /\ http.kind = "upload"
    /\ http.req.fileSize = Num(52428800)
    /\ http.status = 200

\* the falsy values of a JSON body field: absent, "", 0, false
Falsy(v) == v \in {Undefined, Str(<<>>), Num(0), NaN, Bool(FALSE)}

\* C11: an upload is answered 400 "Missing required fields" exactly when
\* one of fileName, fileType, fileSize is absent or falsy, whatever the
\* other fields are.
C11_MissingFields ==
    http.kind = "upload" =>
        ((Falsy(http.req.fileName) \/ Falsy(http.req.fileType) \/ Falsy(http.req.fileSize))
         <=> (http.status = 400 /\ http.body.error = "Missing required fields"))

\* fileSize = 0 with the other fields valid
C11_Witness ==
    /\ http.kind = "upload"
    /\ http.req = Body(NameJpg, TypePng, Num(0))
    /\ http.status = 400 /\ http.body.error = "Missing required fields"

\* a status query has just been answered, with whatever status code
QueryAnswered == http' # http /\ http'.kind = "status"

EverCreated(id) == \E o \in Objs : heap[o].id = id

\* C12: a status query is answered 404 "Job not found" exactly when no job
\* was ever created with that id and 200 with the record otherwise; ids
\* never leave the store, so an id that was created stays answerable.
C12_NotFoundIffNeverCreated ==
    /\ [][QueryAnswered =>
            IF EverCreated(http'.id)
            THEN http'.status = 200 /\ http'.body.jobId = http'.id
            ELSE http'.status = 404 /\ http'.body.error = "Job not found"
         ]_vars
    /\ [][DOMAIN jobs \subseteq DOMAIN jobs']_vars
    /\ [](\A o \in Objs : heap[o].id \in DOMAIN jobs)

\* an unknown id is asked for while another job's record is in the store
C12_Witness ==
    /\ http.kind = "status" /\ http.status = 404
    /\ \E o \in Objs : heap[o].status = "completed" /\ heap[o].id \in DOMAIN jobs

\* C13: every completed job with optimized = true has sizeSaved <= fileSize
\* and 0.2 * fileSize <= sizeSaved <= 0.5 * fileSize (in tenths: 2 * fileSize
\* <= 10 * sizeSaved <= 5 * fileSize).
C13_SizeSavedBounds ==
    \A o \in Objs :
        (heap[o].status = "completed" /\ heap[o].result.optimized) =>
            LET n == heap[o].fileSize.n
                s == heap[o].result.sizeSaved.n
            IN  /\ s <= n
                /\ 2 * n <= 10 * s
                /\ 10 * s <= 5 * n

\* C14: the ids of the jobs createJob has built are pairwise distinct, so
\* the store holds one record under its own id for each job ever created.
C14_IdsDistinct ==
    /\ \A o, p \in Objs : o # p => heap[o].id # heap[p].id
    /\ Cardinality(DOMAIN jobs) = Len(heap)

\* a processMedia call has just ended for o
Ended(o) == pipe[o].pc # "done" /\ pipe'[o].pc = "done"

\* C15: when a processMedia call ends, normally or after a throw in the try
\* block, its job has a terminal status and is stored under its id; no
\* ended call leaves its job processing.
C15_FinalizedOnEveryExit ==
    /\ [][\A o \in Objs : Ended(o) =>
              /\ heap'[o].status \in Terminal
              /\ jobs'[heap'[o].id] = o
         ]_vars
    /\ [](\A o \in Objs : pipe[o].pc = "done" =>
              heap[o].status \in Terminal /\ heap[o].id \in DOMAIN jobs)

\* a call that threw after its first delay has ended with the job failed
C15_Witness ==
    \E o \in Objs :
        /\ heap[o].status = "failed"
        /\ pipe[o].pc = "done"
        /\ pipe[o].operations = <<"optimize">>
        /\ jobs[heap[o].id] = o

\* C16: a completed job's result is {optimized: true, thumbnailCreated,
\* sizeSaved} with a boolean thumbnailCreated and no error; a failed job's
\* result is {optimized: false, thumbnailCreated: false, error} with no
\* sizeSaved.
C16_ResultByStatus ==
    \A o \in Objs :
        /\ heap[o].status = "completed" =>
               /\ DOMAIN heap[o].result = {"optimized", "thumbnailCreated", "sizeSaved"}
               /\ heap[o].result.optimized = TRUE
               /\ heap[o].result.thumbnailCreated \in BOOLEAN
        /\ heap[o].status = "failed" =>
               /\ DOMAIN heap[o].result = {"optimized", "thumbnailCreated", "error"}
               /\ heap[o].result.optimized = FALSE
               /\ heap[o].result.thumbnailCreated = FALSE
               /\ heap[o].result.error \in {"boom", "Unknown error"}

\* a failed job next to a job completed without its thumbnail
C16_Witness ==
    \E o, p \in Objs :
        /\ heap[o].status = "failed"
        /\ heap[p].status = "completed" /\ heap[p].result.thumbnailCreated = FALSE

\* C17: once a job is completed or failed, no later step changes the job:
\* status, result and completedAt stay as the terminal write left them, and
\* no processMedia call is queued or started for it again.
C17_TerminalAbsorbing ==
    [][\A o \in Objs : heap[o].status \in Terminal =>
          /\ heap'[o] = heap[o]
          /\ pipe'[o] = pipe[o]
          /\ \A i \in 1..Len(immediates') : immediates'[i] # o
      ]_vars

\* a failed and a completed job, both still as written, after the last
\* upload the run admits
C17_Witness ==
    /\ Len(heap) = MaxJobs
    /\ \E o, p \in Objs : heap[o].status = "failed" /\ heap[p].status = "completed"
    /\ \A o \in Objs : pipe[o].runs = 1

\* the ids of the accepted responses sent so far stay as sent
AcceptedKept ==
    /\ Len(accepted') >= Len(accepted)
    /\ SubSeq(accepted', 1, Len(accepted)) = accepted

\* C18: when a throw in the pipeline fails a job, the accepted response of
\* its upload has been sent before and that step sends or changes no HTTP
\* response; the fault shows as status failed with result.error in the
\* status queries that follow.
C18_FaultNotInResponse ==
    /\ [][/\ AcceptedKept
          /\ \A o \in Objs :
                (heap[o].status # "failed" /\ heap'[o].status = "failed") =>
                    /\ http' = http
                    /\ \E i \in 1..Len(accepted) : accepted[i] = o
         ]_vars
    /\ [](StatusQueried /\ http.body.status = "failed" =>
              /\ "error" \in DOMAIN http.body.result
              /\ http.body.result.optimized = FALSE)
    /\ [](http.kind = "upload" /\ http.status = 500 => ~ValidImage(http.req))

\* a status query reports the fault of a job whose upload was accepted
C18_Witness ==
    /\ StatusQueried
    /\ http.body.status = "failed"
    /\ http.body.result.error = "boom"
    /\ \E i \in 1..Len(accepted) : heap[accepted[i]].id = http.id

\* an upload has just been answered 500
FaultSent == http' # http /\ http'.kind = "upload" /\ http'.status = 500

\* C19: an upload whose fields are all truthy and whose size is within the
\* limit but whose fileType is not a string makes the image check throw; it
\* is answered 500 "Failed to process upload", and an upload answered 500
\* neither creates a job nor schedules a pipeline.
C19_HandlerFault ==
    /\ [](/\ http.kind = "upload"
          /\ ~Missing(http.req) /\ ~Oversize(http.req)
          /\ http.req.fileSize.t = "number"
          /\ ~IsString(http.req.fileType)
          => http.status = 500 /\ http.body = [error |-> "Failed to process upload"])
    /\ [][FaultSent => UNCHANGED <<heap, jobs, immediates, pipe, accepted>>]_vars

\* fileType true with a size within the limit, answered 500, nothing stored
C19_Witness ==
    /\ http.kind = "upload"
    /\ http.req = Body(NameJpg, Bool(TRUE), Num(SizeLimit))
    /\ http.status = 500
    /\ heap = <<>> /\ immediates = <<>>

\* the writes of one id are a prefix of: pending, processing, terminal
WriteOrder(w) ==
    /\ w["pending"] <= 1
    /\ w["processing"] <= w["pending"]
    /\ w["completed"] + w["failed"] <= w["processing"]

\* a status query or a health check has just been answered
ReadAnswered == http' # http /\ http'.kind \in {"status", "health"}

\* C20: for every job id the store is written at most three times, in the
\* order createJob (pending), processing entry, terminal exit; a status
\* query and a health check modify no job record and write nothing.
C20_ThreeWritesPerId ==
    /\ [](\A id \in DOMAIN writes : WriteOrder(writes[id]))
    /\ [][ReadAnswered => UNCHANGED <<heap, jobs, writes>>]_vars

\* C21: pipelines of distinct jobs are not ordered with respect to each
\* other: whatever the other jobs are doing, a pipeline waiting at a
\* simulated delay can take its next step.
C21_NoOrderingAcrossJobs ==
    \A o \in Objs :
        /\ pipe[o].pc = "optimize" => ENABLED AfterOptimize(o)
        /\ pipe[o].pc = "thumbnail" => ENABLED AfterThumbnail(o)

\* the job submitted second has completed through both delays while the job
\* submitted first, which entered processing before it, is still processing
C21_Witness ==
    /\ Len(heap) >= 2
    /\ heap[1].status = "processing" /\ pipe[1].pc = "thumbnail"
    /\ heap[2].status = "completed"
    /\ pipe[2].operations = <<"optimize", "thumbnail">>

\* the fields createJob takes from the request and the clock
Metadata(job) ==
    <<job.id, job.fileName, job.fileType, job.fileSize, job.createdAt>>

\* C22: id, fileName, fileType, fileSize and createdAt of a job never change
\* after creation, whatever runs later; and the job created by an accepted
\* upload stores the fileName, fileType and fileSize of that request.
C22_MetadataFixed ==
    /\ [][\A o \in Objs :
             o \in DOMAIN heap' /\ Metadata(heap'[o]) = Metadata(heap[o])]_vars
    /\ [](http.kind = "upload" /\ http.status = 200 =>
             LET job == heap[Len(heap)] IN
             /\ job.id = http.body.jobId
             /\ Body(job.fileName, job.fileType, job.fileSize) = http.req)

\* two jobs of different sizes, the first completed and reported by a status
\* query with the size it was created with
C22_Witness ==
    /\ Len(heap) = 2
    /\ heap[1].status = "completed" /\ heap[1].fileSize = Num(SizeLimit)
    /\ heap[2].status = "processing" /\ heap[2].fileSize = Num(-5)
    /\ StatusQueried /\ http.body.status = "completed"
    /\ http.body.fileSize = Num(SizeLimit)

\* a job whose fileType does not begin with image/
NotAnImage(job) ==
    \/ ~IsString(job.fileType)
    \/ Len(job.fileType.s) < Len(ImagePrefix)
    \/ SubSeq(job.fileType.s, 1, Len(ImagePrefix)) # ImagePrefix

\* C23: processMedia on a job whose fileType does not begin with image/
\* waits at no simulated delay and performs no operation; in the one run that
\* takes the job out of pending it writes the processing record and leaves
\* the job terminal with completedAt and result set.
C23_NonImageFinalized ==
    /\ [](\A o \in Objs : NotAnImage(heap[o]) =>
             /\ pipe[o].pc \in {"queued", "done"}
             /\ pipe[o].operations = <<>>
             /\ heap[o].status \in {"pending"} \cup Terminal)
    /\ [][\A o \in Objs :
             (NotAnImage(heap[o]) /\ heap[o].status = "pending"
                 /\ heap'[o] # heap[o]) =>
                 /\ heap'[o].status \in Terminal
                 /\ heap'[o].completedAt # Undefined
                 /\ heap'[o].result # Undefined
                 /\ writes'[heap[o].id]["processing"]
                        = writes[heap[o].id]["processing"] + 1
          ]_vars

\* a PDF job completed without any operation next to an image job that went
\* through both
C23_Witness ==
    /\ Len(heap) = 2
    /\ heap[1].fileType = TypePdf /\ heap[1].status = "completed"
    /\ heap[1].completedAt # Undefined /\ heap[1].result.optimized
    /\ pipe[1].operations = <<>>
    /\ heap[2].fileType = TypePng /\ heap[2].status = "completed"
    /\ pipe[2].operations = <<"optimize", "thumbnail">>

\* C24: when the accepted response is sent, the job is stored under the
\* returned jobId with status pending; a job leaves pending only in a later
\* step, after its upload has been answered.
C24_PendingWhenAccepted ==
    /\ [][AcceptedSent =>
            LET o == accepted'[Len(accepted')] IN
            /\ http'.body.jobId \in DOMAIN jobs'
            /\ jobs'[http'.body.jobId] = o
            /\ heap'[o].status = "pending"
         ]_vars
    /\ [][\A o \in DOMAIN heap' :
            heap'[o].status # "pending" =>
                \/ o \in Objs /\ heap[o].status # "pending"
                \/ /\ o \in Objs
                   /\ \E i \in 1..Len(accepted) : accepted[i] = o
         ]_vars

\* the second upload has just been accepted: its job is stored and pending
\* while the first job is being processed
C24_Witness ==
    /\ http.kind = "upload" /\ http.status = 200
    /\ Len(heap) = 2
    /\ jobs[http.body.jobId] = 2
    /\ heap[2].status = "pending" /\ pipe[2].pc = "queued"
    /\ heap[1].status = "processing"

\* job o is the record the store holds under its id
Stored(o) == heap[o].id \in DOMAIN jobs /\ jobs[heap[o].id] = o

\* a callback of the pipeline of job o has just run
PipelineStep(o) == o \in Objs /\ pipe'[o] # pipe[o]

\* the part of a job the pipeline writes
Outcome(job) == <<job.status, job.result, job.completedAt>>

\* C25: a step of the pipeline of one job leaves every other job of the
\* store where it is, with its status, result and completedAt unchanged.
C25_PipelinesIsolated ==
    [][\A o, p \in Objs :
          (PipelineStep(o) /\ p # o /\ Stored(p)) =>
              /\ jobs'[heap[p].id] = p
              /\ Outcome(heap'[p]) = Outcome(heap[p])
      ]_vars

\* C26: every run of the upload handler sends exactly one response, the one
\* the client receives, and its status is 400, 200 or 500: a validation
\* error, the accepted message, or the handler fault message.
C26_ExactlyOneResponse ==
    http.kind = "upload" =>
        /\ http.sent = <<http.status>>
        /\ http.status \in {400, 200, 500}
        /\ http.status = 400 =>
              http.body.error \in {"Missing required fields",
                                   "File too large (max 50MB)",
                                   "Only images are supported"}
        /\ http.status = 200 => http.body.status = "accepted"
        /\ http.status = 500 => http.body.error = "Failed to process upload"

\* a body with two faults, no fileName and a size over the limit, answered
\* once, while an earlier job is in the store
C26_Witness ==
    /\ http.kind = "upload"
    /\ http.req = Body(Undefined, TypePng, Num(SizeLimit + 1))
    /\ http.sent = <<400>>
    /\ Len(heap) >= 1

\* C27: a file that passed the checks of handleFile and was uploaded with
\* its name, type and size is never answered 400 by the backend: once the
\* fetch is answered, the answer is the accepted response.
C27_FormNeverRejected ==
    \A u \in 1..Len(form.uploads) :
        ~Rejected(form.uploads[u].file) =>
            form.uploads[u].status \in {0, 200}

\* upload u has been started and has neither completed nor failed
Active(u) == form.uploads[u].phase \in {"fetching", "processing"}

\* C28: while an upload is uploading or processing the form does not go back
\* to idle; in particular the reset timer of a file rejected before the
\* upload started does not fire idle into it, and the upload button is not
\* enabled again.
C28_IdleOnlyByOwnUpload ==
    /\ [][(form'.uploadStatus = "idle" /\ form.uploadStatus # "idle") =>
             \A u \in 1..Len(form.uploads) : ~Active(u)]_vars
    /\ [][\A i \in 1..Len(form.timers) :
             (TimerFires(i) /\ form.timers[i].callback = "fileReset") =>
                 \A u \in 1..Len(form.uploads) :
                     form.timers[i].after < u => ~Active(u)]_vars
    /\ [](ButtonEnabled => \A u \in 1..Len(form.uploads) : ~Active(u))

====
